---- MODULE Spec2Model ----
(***************************************************************************)
(* Storage engine of memc-rs (src/src/memcache/storage.rs): a DashMap of   *)
(* key -> Record, an AtomicU64 cas sequencer and an injected timer, used   *)
(* by any number of concurrent callers.  One action per DashMap / atomic   *)
(* access: what the code does between two such accesses is local to the    *)
(* caller and is folded into the access that precedes it.                  *)
(***************************************************************************)
EXTENDS Integers, Sequences, FiniteSets, TLC

\* ------------------------------------------------------------------ bounds
\* Operations invoked in one behaviour: by two concurrent callers (Spec), by
\* a single caller (SpecSeq).
MaxOps == 3
MaxSeqOps == 4
\* Largest reading of the timer.
MaxTime == 1
\* Width of the model's u64: 2^64 is beyond TLC's integers, so the
\* arithmetic of the code is kept with its wrap-around at a scaled-down width.
U64Bits == 3

U64Max == 2^U64Bits - 1

\* 0xffffffff, the expiration with which add_delta does not create a missing
\* key; the model's expirations are otherwise 0 .. 3.
NoAutoCreate == 9

\* ------------------------------------------------------------------ inputs
\* What the callers of Spec pass: one key, so that every call contends.
Procs == {"p1", "p2"}
Keys == {"k1"}
Vals == {<<"2">>}
\* the payloads of append and prepend
Tails == {<<"x">>}
\* cas tokens a caller may supply (0: no check requested)
CasIn == {0, 1}
FlagsIn == {0}
ExpIn == {0, 1}

\* What the single caller of SpecSeq passes.
SeqProcs == {"p1"}
SeqKeys == {"k1"}
SeqVals == {<<"2">>}
SeqTails == {<<"x">>}
SeqCasIn == {0, 1, 2}
SeqFlagsIn == {7}
SeqExpIn == {0, 1}


\* The keys of SpecKeys: one caller, the inputs of Spec, two keys.
TwoKeys == {"k1", "k2"}

\* What increment and decrement are passed: the delta, the initial value, the
\* flags and the expiration of the header (0xffffffff: do not create).
DeltaIn == {1, U64Max}
InitialIn == {5}
DeltaFlagsIn == {4}
DeltaExpIn == {0, NoAutoCreate}
\* cas tokens of SpecDelta, the largest u64 among them
DeltaCasIn == {0, U64Max}

\* The expirations flush is passed.
FlushExpIn == {0, 1}

AllProcs == Procs \cup SeqProcs

AllKeys == Keys \cup SeqKeys \cup TwoKeys

VARIABLES
    memory,   \* Storage.memory: the records, a function on the keys present
    cas_id,   \* Storage.cas_id
    now,      \* what Storage.timer.secs() reads
    pc,       \* per caller: the access it is about to make ("idle": not in a call)
    op,       \* per caller: the operation it is in and its arguments
    rd,       \* per caller: the copy get_by_key took (Option<Record>, a set)
    rec,      \* per caller: the record handed to Storage::set
    secs,     \* per caller: the timer reading check_if_expired took
    ret,      \* the call that has just returned: its arguments, its result
              \*   and the shared state its last access found (history)
    budget,   \* operations that may still be invoked
    issued,   \* history: the values get_cas_id has returned, in order
    last,     \* history, per key: the cas supplied by the latest commit under
              \*   the key when that was a conditional set over a present
              \*   record, else 0
    stale,    \* history, per key: every cas once stored under the key and
              \*   since overwritten or removed
    wtime,    \* history, per key: timer reading at the latest write
    flushed   \* history, per key: the expiration a flush has set on the record
              \*   under the key, -1 when the record was written since (or
              \*   no flush has visited it)

vars == <<memory, cas_id, now, pc, op, rd, rec, secs, ret, budget, issued, last, stale, wtime, flushed>>

\* ------------------------------------------------------------- data model
\* Header::new: the timestamp is set to 0 and no write path changes it.
Header(cas, flags, expiration) ==
    [cas |-> cas, flags |-> flags, expiration |-> expiration, timestamp |-> 0]

Record(value, cas, flags, expiration) ==
    [value |-> value, header |-> Header(cas, flags, expiration)]

NoRecord == Record(<<>>, 0, 0, 0)

\* DashMap::get / insert / remove on the map as a function
Lookup(m, k) == IF k \in DOMAIN m THEN {m[k]} ELSE {}

MapInsert(m, k, r) == [x \in DOMAIN m \cup {k} |-> IF x = k THEN r ELSE m[x]]

MapRemove(m, k) == [x \in DOMAIN m \ {k} |-> m[x]]

\* DeltaParam; NoDelta for the operations that take none
DeltaParam(delta, value) == [value |-> value, delta |-> delta]

NoDelta == DeltaParam(0, 0)

NoOp == [delta |-> NoDelta, kind |-> "none", key |-> "k1", record |-> NoRecord]

\* ------------------------------------------------------------ decimal text
\* str::from_utf8(..).parse::<u64>() and u64::to_string, on values held as
\* sequences of one-character strings.
Digits == <<"0", "1", "2", "3", "4", "5", "6", "7", "8", "9">>

IsDigit(c) == \E i \in 1..10 : Digits[i] = c

DigitValue(c) == (CHOOSE i \in 1..10 : Digits[i] = c) - 1

\* the digits s[i..] accumulated onto acc; -1: a character that is no digit,
\* or a number that does not fit a u64
RECURSIVE ParseDigits(_, _, _)
ParseDigits(s, i, acc) ==
    IF i > Len(s) THEN acc
    ELSE IF ~IsDigit(s[i]) THEN -1
    ELSE LET n == acc * 10 + DigitValue(s[i]) IN
         IF n > U64Max THEN -1 ELSE ParseDigits(s, i + 1, n)

\* parse::<u64>: an optional "+", then at least one digit; -1 for Err
ParseU64(s) ==
    IF s = <<>> THEN -1
    ELSE IF s[1] = "+" THEN (IF Len(s) = 1 THEN -1 ELSE ParseDigits(s, 2, 0))
    ELSE ParseDigits(s, 1, 0)

RECURSIVE to_string(_)
to_string(n) ==
    IF n < 10 THEN <<Digits[n + 1]>>
    ELSE to_string(n \div 10) \o <<Digits[(n % 10) + 1]>>

NoRet ==
    [memory |-> << >>, cas_id |-> 0, op |-> NoOp, rd |-> {}, rec |-> NoRecord,
     secs |-> 0, last |-> 0, stale |-> {}, wtime |-> 0, flushed |-> -1,
     cas |-> 0, status |-> "none", proc |-> "p1", arm |-> "-"]

\* Storage::new, `ops` operations ahead
Start(ops) ==
    /\ memory = << >>
    /\ cas_id = 1
    /\ now = 0
    /\ pc = [p \in AllProcs |-> "idle"]
    /\ op = [p \in AllProcs |-> NoOp]
    /\ rd = [p \in AllProcs |-> {}]
    /\ rec = [p \in AllProcs |-> NoRecord]
    /\ secs = [p \in AllProcs |-> 0]
    /\ ret = NoRet
    /\ budget = ops
    /\ issued = << >>
    /\ last = [k \in AllKeys |-> 0]
    /\ stale = [k \in AllKeys |-> {}]
    /\ wtime = [k \in AllKeys |-> 0]
    /\ flushed = [k \in AllKeys |-> -1]

Init == Start(MaxOps)

InitSeq == Start(MaxSeqOps)

\* ------------------------------------------------------- call and return
\* A caller not in a call invokes an operation; the call's first access to
\* the shared state is part of the same step.
Invoke(p) ==
    /\ pc[p] = "idle"
    /\ ret = NoRet
    /\ budget > 0
    /\ budget' = budget - 1

\* The call `o` of `p` returns `status` (and `cas`).  Its locals are dropped;
\* ret keeps them, with the shared state its last access found, until the
\* caller has taken the result.
\*   found: what get_by_key had read      setarg: what Storage::set was given
\*   t: check_if_expired's timer reading
\*   arm: the arm of Storage::set that decided ("some": get_mut found a
\*        record, "none": it found none, "seq": cas == 0), "-" for no set
Complete(p, o, status, cas, found, setarg, t, arm) ==
    /\ pc' = [pc EXCEPT ![p] = "idle"]
    /\ op' = [op EXCEPT ![p] = NoOp]
    /\ rd' = [rd EXCEPT ![p] = {}]
    /\ rec' = [rec EXCEPT ![p] = NoRecord]
    /\ secs' = [secs EXCEPT ![p] = 0]
    /\ ret' = [memory |-> memory, cas_id |-> cas_id, op |-> o, rd |-> found,
               rec |-> setarg, secs |-> t, last |-> last[o.key],
               stale |-> stale[o.key], wtime |-> wtime[o.key],
               flushed |-> flushed[o.key],
               cas |-> cas, status |-> status, proc |-> p, arm |-> arm]

\* The caller takes the result.
Return ==
    /\ ret # NoRet
    /\ ret' = NoRet
    /\ UNCHANGED <<memory, cas_id, now, pc, op, rd, rec, secs, budget, issued, last, stale, wtime, flushed>>

\* The call `o` of `p` goes on to its next access.
Continue(p, o, next, found, setarg, t) ==
    /\ pc' = [pc EXCEPT ![p] = next]
    /\ op' = [op EXCEPT ![p] = o]
    /\ rd' = [rd EXCEPT ![p] = found]
    /\ rec' = [rec EXCEPT ![p] = setarg]
    /\ secs' = [secs EXCEPT ![p] = t]
    /\ ret' = ret

\* ------------------------------------------------- after get_by_key returns
\* The record each caller of get_by_key hands to Storage::set when the
\* lookup found `r`.
SetArgument(kind, r, new) ==
    CASE kind = "append" ->
            [value |-> r.value \o new.value,
             header |-> [r.header EXCEPT !.cas = new.header.cas]]
      [] kind = "prepend" ->
            [value |-> new.value \o r.value,
             header |-> [r.header EXCEPT !.cas = new.header.cas]]
      [] OTHER -> new

\* a + b does not fit a u64: a build with overflow checks panics there, a
\* build without them wraps
Overflows(a, b) == a + b > U64Max

\* (the subtraction without its floor)
DecrementFloor_Underflow(n, d) == (n - d + U64Max + 1) % (U64Max + 1)

\* add_delta, decrement: if delta.delta > value_as_u64 { 0 } else { value_as_u64 - delta.delta }
DecrementFloor(n, d) == IF d > n THEN 0 ELSE n - d

\* add_delta, increment: value_as_u64 += delta.delta where it does not panic
WrappingAdd(n, d) == (n + d) % (U64Max + 1)

\* add_delta on a missing key: Record::new(delta.value.to_string(), header.cas, header.flags, 0)
InitialRecord(header, delta) ==
    Record(to_string(delta.value), header.cas, header.flags, 0)

\* add_delta on a record found: the value re-encoded, the caller's header
DeltaRecord(header, n) == [value |-> to_string(n), header |-> header]

\* add_delta after get_by_key returned Ok(r)
AddDeltaFound(p, o, r, t) ==
    LET n == ParseU64(r.value)
        d == o.delta.delta
    IN
    IF n = -1 THEN Complete(p, o, "ArithOnNonNumeric", 0, {r}, NoRecord, t, "-")
    ELSE IF o.kind = "decrement"
    THEN Continue(p, o, "set", {r}, DeltaRecord(o.record.header, DecrementFloor(n, d)), t)
    ELSE IF Overflows(n, d)
    THEN \/ Complete(p, o, "Panic", 0, {r}, NoRecord, t, "panic")
         \/ Continue(p, o, "set", {r}, DeltaRecord(o.record.header, WrappingAdd(n, d)), t)
    ELSE Continue(p, o, "set", {r}, DeltaRecord(o.record.header, n + d), t)

\* get_by_key returned Ok(r): get returns it, add fails, add_delta computes,
\* the others go on to Storage::set.
Found(p, o, r, t) ==
    IF o.kind = "get" THEN Complete(p, o, "Ok", r.header.cas, {r}, NoRecord, t, "-")
    ELSE IF o.kind = "add" THEN Complete(p, o, "KeyExists", 0, {r}, NoRecord, t, "-")
    ELSE IF o.kind \in {"decrement", "increment"} THEN AddDeltaFound(p, o, r, t)
    ELSE Continue(p, o, "set", {r}, SetArgument(o.kind, r, o.record), t)

\* get_by_key returned Err(NotFound): add goes on to Storage::set, add_delta
\* too unless the header's expiration is 0xffffffff, the others return
\* NotFound.
Missing(p, o, found, t) ==
    IF o.kind = "add" THEN Continue(p, o, "set", found, o.record, t)
    ELSE IF o.kind \in {"decrement", "increment"} /\ o.record.header.expiration # NoAutoCreate
    THEN Continue(p, o, "set", found, InitialRecord(o.record.header, o.delta), t)
    ELSE Complete(p, o, "NotFound", 0, found, NoRecord, t, "-")

\* ------------------------------------------------------------- get_by_key
\* self.memory.get(key), cloned.  An absent key returns NotFound at once; a
\* record with expiration 0 is never expired, whatever the timer reads.
GetByKey(p, o) ==
    LET found == Lookup(memory, o.key) IN
    /\ IF found = {} THEN Missing(p, o, {}, 0)
       ELSE LET r == CHOOSE x \in found : TRUE IN
            IF r.header.expiration = 0 THEN Found(p, o, r, 0)
            ELSE Continue(p, o, "check_if_expired", found, NoRecord, 0)
    /\ UNCHANGED <<memory, cas_id, now, issued, last, stale, wtime, flushed>>

\* (a test that lets every record through)
Expired_Never(r, current_time) == FALSE

\* check_if_expired's test on the copy, against the timer
Expired(r, current_time) ==
    /\ r.header.expiration # 0
    /\ ~(r.header.timestamp + r.header.expiration > current_time)

\* self.timer.secs() and the comparison
CheckIfExpired(p) ==
    /\ pc[p] = "check_if_expired"
    /\ ret = NoRet
    /\ LET r == CHOOSE x \in rd[p] : TRUE IN
       IF Expired(r, now)
       THEN Continue(p, op[p], "remove", rd[p], NoRecord, now)
       ELSE Found(p, op[p], r, now)
    /\ UNCHANGED <<memory, cas_id, now, budget, issued, last, stale, wtime, flushed>>

\* History of a removal of whatever is under `k`.
Removed(k) ==
    /\ stale' = [stale EXCEPT ![k] = @ \cup {m.header.cas : m \in Lookup(memory, k)}]
    /\ last' = [last EXCEPT ![k] = IF k \in DOMAIN memory THEN 0 ELSE @]
    /\ flushed' = [flushed EXCEPT ![k] = -1]

\* self.memory.remove(key) of check_if_expired: whatever is under the key
Evict(p) ==
    /\ pc[p] = "remove"
    /\ ret = NoRet
    /\ memory' = MapRemove(memory, op[p].key)
    /\ Removed(op[p].key)
    /\ Missing(p, op[p], rd[p], secs[p])
    /\ UNCHANGED <<cas_id, now, budget, issued, wtime>>

\* ------------------------------------------------------------ Storage::set
\* (the increment left out)
CasInc_Forgotten(cas) == cas

\* record.header.cas += 1, wrapping as a build without overflow checks does
CasInc(cas) == (cas + 1) % (U64Max + 1)

\* key_value.header.cas != record.header.cas
CasMismatch(key_value, record) == key_value.header.cas # record.header.cas

\* (the record assigned before the comparison)
SetCasSome_WriteFirst(key_value, record) ==
    IF CasMismatch(key_value, record)
    THEN [cas |-> 0, status |-> "KeyExists", entry |-> record]
    ELSE [cas |-> CasInc(record.header.cas), status |-> "Ok",
          entry |-> [record EXCEPT !.header.cas = CasInc(record.header.cas)]]

\* The Some arm of get_mut, under the entry's guard: the status returned and
\* the record left under the key.
SetCasSome(key_value, record) ==
    IF CasMismatch(key_value, record)
    THEN [cas |-> 0, status |-> "KeyExists", entry |-> key_value]
    ELSE [cas |-> CasInc(record.header.cas), status |-> "Ok",
          entry |-> [record EXCEPT !.header.cas = CasInc(record.header.cas)]]

\* A write of `r` under `k`, with its history; `c` is the cas the caller
\* supplied when the write is that of the Some arm, else 0.
Write(k, r, c) ==
    /\ memory' = MapInsert(memory, k, r)
    /\ stale' = [stale EXCEPT ![k] = @ \cup {m.header.cas : m \in Lookup(memory, k)}]
    /\ last' = [last EXCEPT ![k] = c]
    /\ wtime' = [wtime EXCEPT ![k] = now]
    /\ flushed' = [flushed EXCEPT ![k] = -1]

\* (a load in place of the fetch_add)
get_cas_id_Load(c) == [cas_id |-> c, cas |-> c]

\* self.cas_id.fetch_add(1, SeqCst): the value before the add, and the
\* counter after it
get_cas_id(c) == [cas_id |-> (c + 1) % (U64Max + 1), cas |-> c]

\* Storage::set's first access.
\* record.header.cas > 0: self.memory.get_mut(&key).  Some: compare and
\* write under the entry's guard.  None: no guard is held; the insert is
\* the next access.
\* record.header.cas == 0: the cas is drawn from the sequencer; the insert
\* is the next access.
SetAccess(p, o, found, record, t) ==
    LET k == o.key
        \* the panic of `cas += 1` in a build with overflow checks: nothing is
        \* written, the guard is released by the unwinding
        panic == /\ Overflows(record.header.cas, 1)
                 /\ Complete(p, o, "Panic", 0, found, record, t, "panic")
                 /\ UNCHANGED <<memory, last, stale, wtime, flushed>>
    IN
    IF record.header.cas > 0 THEN
        /\ UNCHANGED <<cas_id, issued>>
        /\ IF k \in DOMAIN memory THEN
               LET out == SetCasSome(memory[k], record) IN
               IF out.status = "Ok"
               THEN \/ panic
                    \/ /\ Write(k, out.entry, record.header.cas)
                       /\ Complete(p, o, out.status, out.cas, found, record, t, "some")
               ELSE /\ memory' = MapInsert(memory, k, out.entry)
                    /\ UNCHANGED <<last, stale, wtime, flushed>>
                    /\ Complete(p, o, out.status, out.cas, found, record, t, "some")
           ELSE \/ panic
                \/ /\ Continue(p, o, "insert", found,
                                [record EXCEPT !.header.cas = CasInc(record.header.cas)], t)
                   /\ UNCHANGED <<memory, last, stale, wtime, flushed>>
    ELSE
        LET drawn == get_cas_id(cas_id) IN
        /\ cas_id' = drawn.cas_id
        /\ issued' = Append(issued, drawn.cas)
        /\ Continue(p, o, "insert", found, [record EXCEPT !.header.cas = drawn.cas], t)
        /\ UNCHANGED <<memory, last, stale, wtime, flushed>>

\* Storage::set reached from add, replace, append or prepend
SetCall(p) ==
    /\ pc[p] = "set"
    /\ ret = NoRet
    /\ SetAccess(p, op[p], rd[p], rec[p], secs[p])
    /\ UNCHANGED <<now, budget>>

\* self.memory.insert(key, record), of the None arm and of the cas == 0 arm
Insert(p) ==
    /\ pc[p] = "insert"
    /\ ret = NoRet
    /\ Write(op[p].key, rec[p], 0)
    /\ Complete(p, op[p], "Ok", rec[p].header.cas, rd[p], rec[p], secs[p],
                IF op[p].record.header.cas > 0 THEN "none" ELSE "seq")
    /\ UNCHANGED <<cas_id, now, budget, issued>>

\* -------------------------------------------------------------- operations
Call(kind, k, record) == [delta |-> NoDelta, kind |-> kind, key |-> k, record |-> record]

\* increment, decrement: the header and the DeltaParam of the caller
DeltaCall(kind, k, header, delta) ==
    [delta |-> delta, kind |-> kind, key |-> k, record |-> [value |-> <<>>, header |-> header]]

get(p, k) ==
    /\ Invoke(p)
    /\ GetByKey(p, Call("get", k, NoRecord))

set(p, k, record) ==
    /\ Invoke(p)
    /\ SetAccess(p, Call("set", k, record), {}, record, 0)
    /\ UNCHANGED now

add(p, k, record) ==
    /\ Invoke(p)
    /\ GetByKey(p, Call("add", k, record))

replace(p, k, record) ==
    /\ Invoke(p)
    /\ GetByKey(p, Call("replace", k, record))

append(p, k, record) ==
    /\ Invoke(p)
    /\ GetByKey(p, Call("append", k, record))

prepend(p, k, record) ==
    /\ Invoke(p)
    /\ GetByKey(p, Call("prepend", k, record))

\* (a predicate that accepts every record)
CasMatch_Always(header, record) == TRUE

\* the predicate of delete: header.cas == 0 || record.header.cas == header.cas
CasMatch(header, record) == header.cas = 0 \/ record.header.cas = header.cas

\* self.memory.remove_if(&key, predicate): test and removal under the lock of
\* the key's shard
delete(p, k, header) ==
    LET o == Call("delete", k, [value |-> <<>>, header |-> header]) IN
    /\ Invoke(p)
    /\ IF k \in DOMAIN memory
       THEN IF CasMatch(header, memory[k])
            THEN /\ memory' = MapRemove(memory, k)
                 /\ Removed(k)
                 /\ Complete(p, o, "Ok", 0, {}, NoRecord, 0, "-")
            ELSE /\ Complete(p, o, "KeyExists", 0, {}, NoRecord, 0, "-")
                 /\ UNCHANGED <<memory, last, stale, flushed>>
       ELSE /\ Complete(p, o, "NotFound", 0, {}, NoRecord, 0, "-")
            /\ UNCHANGED <<memory, last, stale, flushed>>
    /\ UNCHANGED <<cas_id, now, issued, wtime>>

increment(p, k, header, delta) ==
    /\ Invoke(p)
    /\ GetByKey(p, DeltaCall("increment", k, header, delta))

decrement(p, k, header, delta) ==
    /\ Invoke(p)
    /\ GetByKey(p, DeltaCall("decrement", k, header, delta))

\* ------------------------------------------------------------------ flush
\* alter_all visits the shards of the map in their order, one shard's lock at
\* a time.  Every key of the model is a shard of its own, visited in the
\* order of KeyOrder; op.key is the shard the flush is about to visit.
KeyOrder == <<"k1", "k2">>

KeyIndex(k) == CHOOSE i \in 1..Len(KeyOrder) : KeyOrder[i] = k

FirstKey(S) == CHOOSE x \in S : \A y \in S : KeyIndex(x) <= KeyIndex(y)

LaterKeys(K, k) == {x \in K : KeyIndex(x) > KeyIndex(k)}

\* (the closure returning the value as it was)
Altered_Untouched(record, header) == record

\* the closure of flush: value.header.expiration = header.expiration
Altered(record, header) == [record EXCEPT !.header.expiration = header.expiration]

\* the visit of shard o.key, then the next shard or the return
AlterShard(p, o, K) ==
    LET k == o.key
        rest == LaterKeys(K, k)
    IN
    /\ IF k \in DOMAIN memory
       THEN /\ memory' = [memory EXCEPT ![k] = Altered(@, o.record.header)]
            /\ flushed' = [flushed EXCEPT ![k] = o.record.header.expiration]
       ELSE UNCHANGED <<memory, flushed>>
    /\ IF rest = {}
       THEN Complete(p, o, "Ok", 0, {}, NoRecord, 0, "-")
       ELSE Continue(p, [o EXCEPT !.key = FirstKey(rest)], "alter_all", {}, NoRecord, 0)
    /\ UNCHANGED <<cas_id, now, issued, last, stale, wtime>>

flush(p, K, header) ==
    /\ Invoke(p)
    /\ AlterShard(p, Call("flush", FirstKey(K), [value |-> <<>>, header |-> header]), K)

AlterAll(p, K) ==
    /\ pc[p] = "alter_all"
    /\ ret = NoRet
    /\ AlterShard(p, op[p], K)
    /\ UNCHANGED budget

\* ------------------------------------------------------------------ timer
Tick ==
    /\ ret = NoRet
    /\ now < MaxTime
    /\ now' = now + 1
    /\ UNCHANGED <<memory, cas_id, pc, op, rd, rec, secs, ret, budget, issued, last, stale, wtime, flushed>>

\* ------------------------------------------------------------------- spec
\* The steps of callers P passing keys K, values V (W to append and prepend),
\* cas tokens C, flags F and expirations E.  append and prepend read only the
\* value and the cas of the record they are given: its flags and expiration
\* are fixed, to values no stored record has.
Step(P, K, V, W, C, F, E) ==
    \/ \E p \in P, k \in K : get(p, k)
    \/ \E p \in P, k \in K, v \in V, c \in C, f \in F, e \in E :
          \/ set(p, k, Record(v, c, f, e))
          \/ add(p, k, Record(v, c, f, e))
          \/ replace(p, k, Record(v, c, f, e))
    \/ \E p \in P, k \in K, v \in W, c \in C :
          \/ append(p, k, Record(v, c, 5, 3))
          \/ prepend(p, k, Record(v, c, 5, 3))
    \/ \E p \in P, k \in K, c \in C : delete(p, k, Header(c, 0, 0))
    \/ \E p \in P :
          \/ CheckIfExpired(p)
          \/ Evict(p)
          \/ SetCall(p)
          \/ Insert(p)
    \/ Return
    \/ Tick

Next == Step(Procs, Keys, Vals, Tails, CasIn, FlagsIn, ExpIn)

NextSeq == Step(SeqProcs, SeqKeys, SeqVals, SeqTails, SeqCasIn, SeqFlagsIn, SeqExpIn)

\* Two concurrent callers contending for one key.
Spec == Init /\ [][Next]_vars

\* One caller, one key, more operations and the wider inputs.
SpecSeq == InitSeq /\ [][NextSeq]_vars

NextKeys == Step(SeqProcs, TwoKeys, Vals, Tails, CasIn, FlagsIn, ExpIn)

\* One caller, two keys.
SpecKeys == Init /\ [][NextKeys]_vars

\* increment and decrement by callers P on keys K
DeltaStep(P, K, C, F, E, D, I) ==
    \E p \in P, k \in K, c \in C, f \in F, e \in E, d \in D, i \in I :
        \/ increment(p, k, Header(c, f, e), DeltaParam(d, i))
        \/ decrement(p, k, Header(c, f, e), DeltaParam(d, i))

\* flush by callers P over the keys K
FlushStep(P, K, E) ==
    \/ \E p \in P, e \in E : flush(p, K, Header(0, 0, e))
    \/ \E p \in P : AlterAll(p, K)

NextDelta ==
    \/ Step(SeqProcs, SeqKeys, Vals, Tails, DeltaCasIn, FlagsIn, ExpIn)
    \/ DeltaStep(SeqProcs, SeqKeys, DeltaCasIn, DeltaFlagsIn, DeltaExpIn, DeltaIn, InitialIn)

\* One caller, one key, with increment and decrement.
SpecDelta == InitSeq /\ [][NextDelta]_vars

NextFlush ==
    \/ Step(SeqProcs, TwoKeys, Vals, Tails, CasIn, FlagsIn, ExpIn)
    \/ FlushStep(SeqProcs, TwoKeys, FlushExpIn)

\* One caller, two keys, with flush.
SpecFlush == Init /\ [][NextFlush]_vars

NextRace ==
    \/ Step(Procs, Keys, Vals, Tails, {0}, FlagsIn, ExpIn)
    \/ DeltaStep(Procs, Keys, {0}, DeltaFlagsIn, {0}, DeltaIn, InitialIn)

\* Two concurrent callers on one key, unconditional operations only.
SpecRace == Init /\ [][NextRace]_vars


\* ================================================================ claims
\* The claims are stated on the state in which a call has just returned:
\* ret holds the call, its result and the shared state its deciding access
\* found; the unprimed variables hold the state that access left.
Returned == ret.status # "none"

RetKey == ret.op.key

\* the cas the caller supplied in the record (0: no check requested)
Supplied == ret.op.record.header.cas

\* the entry under the call's key before and after its deciding access
Before == Lookup(ret.memory, RetKey)

After == Lookup(memory, RetKey)

Writes == {"append", "prepend", "set", "add", "replace"}

\* C1: conditional set atomicity on an existing key.  A conditional set that
\* finds a record under the key returns Ok or KeyExists.  When the latest
\* commit under the key was a winning conditional set that supplied the same
\* cas (no other operation on the key came between), the call returns
\* KeyExists: of the calls racing with one token at most one wins.  The cas
\* stored when the winner returns is the cas it returns.
C1_ConditionalSetOneWinner ==
    (Returned /\ ret.arm = "some") =>
        /\ ret.status \in {"Ok", "KeyExists"}
        /\ ret.last = Supplied => ret.status = "KeyExists"
        /\ ret.status = "Ok" =>
              /\ RetKey \in DOMAIN memory
              /\ memory[RetKey].header.cas = ret.cas

\* C1's case: a conditional set loses right after a conditional set with the
\* same token has won.
C1_Witness ==
    /\ Returned
    /\ ret.arm = "some"
    /\ ret.op.kind = "set"
    /\ ret.last = Supplied
    /\ ret.status = "KeyExists"

\* C2: a conditional set on a missing key checks and writes in one step: the
\* set that succeeds by the absent rule inserts under a key that is still
\* absent.
C2_AbsentCheckAndInsertAtomic ==
    (Returned /\ ret.op.kind = "set" /\ ret.arm = "none" /\ ret.status = "Ok") =>
        Before = {}

\* C3: no lost update through a stale token.  A conditional set or a
\* conditional delete that succeeds against a present record supplied a cas
\* that no write or removal under the key has superseded.
C3_NoStaleTokenWins ==
    (/\ Returned
     /\ ret.status = "Ok"
     /\ \/ ret.arm = "some"
        \/ ret.op.kind = "delete" /\ Supplied # 0)
    => Supplied \notin ret.stale

\* C4: cas monotonicity.  When a write has succeeded, every cas stored under
\* the key before it is smaller than the cas now stored.
C4_CasStrictlyIncreasing ==
    (Returned /\ ret.op.kind \in Writes /\ ret.status = "Ok" /\ After # {}) =>
        \A r \in After : \A c \in stale[RetKey] : c < r.header.cas

\* C5: an unconditional set always succeeds: it returns Ok, the record it was
\* given is under the key with the cas it returns, and that cas is one the
\* sequencer issued; the sequencer starts at 1 and issues no value twice.
C5_UnconditionalSetSucceeds ==
    /\ \A i \in 1..Len(issued) : i = 1 => issued[i] = 1
    /\ \A i, j \in 1..Len(issued) : i # j => issued[i] # issued[j]
    /\ (Returned /\ ret.op.kind = "set" /\ Supplied = 0) =>
          /\ ret.status = "Ok"
          /\ ret.cas >= 1
          /\ \E i \in 1..Len(issued) : issued[i] = ret.cas
          /\ After = {[ret.op.record EXCEPT !.header.cas = ret.cas]}

\* C5's case: an unconditional set has returned after replacing a record,
\* with a cas that is not the sequencer's first.
C5_Witness ==
    /\ Returned
    /\ ret.op.kind = "set"
    /\ Supplied = 0
    /\ Before # {}
    /\ ret.cas > 1

\* C6: a conditional set whose cas differs from the stored one returns
\* KeyExists and changes nothing: not the key's record, not another key, not
\* the sequencer.
C6_MismatchChangesNothing ==
    (Returned /\ ret.arm = "some" /\ \E r \in Before : r.header.cas # Supplied) =>
        /\ ret.status = "KeyExists"
        /\ memory = ret.memory
        /\ cas_id = ret.cas_id

\* C6's case: a conditional set has failed on a mismatch while another key
\* holds a record.
C6_Witness ==
    /\ Returned
    /\ ret.op.kind = "set"
    /\ ret.arm = "some"
    /\ ret.status = "KeyExists"
    /\ \E k \in DOMAIN memory : k # RetKey

\* C7: expiration correctness.  get finds a record with expiration e > 0,
\* written when the timer read t0, exactly while the timer reads less than
\* t0 + e; it always finds a record with expiration 0.
C7_ExpirationFromLastWrite ==
    (Returned /\ ret.op.kind = "get") =>
        \A r \in ret.rd :
            IF r.header.expiration = 0 \/ ret.secs < ret.wtime + r.header.expiration
            THEN ret.status = "Ok"
            ELSE ret.status = "NotFound"

\* C8: add succeeds only on an absent (or expired) key, at the instant of its
\* commit, and a failing add changes nothing.
C8_AddOnlyWhenAbsent ==
    (Returned /\ ret.op.kind = "add") =>
        /\ ret.status = "Ok" => \A r \in Before : Expired(r, now)
        /\ ret.status = "KeyExists" => memory = ret.memory

\* C9: replace never creates a key: a replace that succeeds wrote over a
\* record that was under the key at its commit.
C9_ReplaceNeverCreates ==
    (Returned /\ ret.op.kind = "replace" /\ ret.status = "Ok") => Before # {}

\* C10: append stores the old value followed by the payload, prepend the
\* payload followed by the old value; both keep the stored flags and
\* expiration and leave a cas that differs from the one before.
C10_AppendPrepend ==
    (Returned /\ ret.op.kind \in {"append", "prepend"} /\ ret.status = "Ok") =>
        \A old \in Before : \A new \in After :
            /\ new.value = IF ret.op.kind = "append"
                           THEN old.value \o ret.op.record.value
                           ELSE ret.op.record.value \o old.value
            /\ new.header.flags = old.header.flags
            /\ new.header.expiration = old.header.expiration
            /\ new.header.cas # old.header.cas

\* the record get_by_key returned to the call: the copy it read, when the
\* expiration check let it through
Live == {r \in ret.rd : ~Expired(r, ret.secs)}

\* C11: decrement floor.  A decrement by d of a live key whose value is the
\* decimal text of n stores the text of n - d when d <= n and "0" when d > n;
\* with no cas check requested it succeeds whatever d is.
C11_DecrementFloor ==
    (Returned /\ ret.op.kind = "decrement") =>
        \A r \in Live :
            LET n == ParseU64(r.value)
                d == ret.op.delta.delta
            IN n # -1 =>
                /\ Supplied = 0 => ret.status = "Ok"
                /\ ret.status = "Ok" =>
                      \A new \in After :
                          new.value = to_string(IF d <= n THEN n - d ELSE 0)

\* C11's case: a decrement by more than the stored number has left "0".
C11_Witness ==
    /\ Returned
    /\ ret.op.kind = "decrement"
    /\ ret.status = "Ok"
    /\ \E r \in Live : ParseU64(r.value) > 0 /\ ret.op.delta.delta > ParseU64(r.value)
    /\ \E new \in After : new.value = <<"0">>

DeltaKinds == {"decrement", "increment"}

\* what add_delta leaves on a key it found absent or expired: the record
\* made of the initial value, or nothing under the no-create expiration
AutoCreated ==
    IF ret.op.record.header.expiration # NoAutoCreate
    THEN /\ ret.status = "Ok"
         /\ After = {[value |-> to_string(ret.op.delta.value),
                      header |-> Header(ret.cas, ret.op.record.header.flags, 0)]}
    ELSE /\ ret.status = "NotFound"
         /\ After = {}

\* C12: delta auto-create sentinel.  increment or decrement on an absent or
\* expired key creates it with the decimal text of the initial value,
\* expiration 0 and the caller's flags, unless the header's expiration is
\* 0xffffffff: then it returns NotFound and the key stays absent.
C12_AutoCreateSentinel ==
    (Returned /\ ret.op.kind \in DeltaKinds /\ Live = {}) => AutoCreated

\* The same for the headers whose cas is not the largest u64.
C12_AutoCreateBelowMaxCas ==
    (Returned /\ ret.op.kind \in DeltaKinds /\ Live = {} /\ ~Overflows(Supplied, 1)) =>
        AutoCreated

\* C13: delete checks and removes in one step, with three outcomes: on a
\* present key Ok and the record removed exactly when the header's cas is 0
\* or equals the stored cas, KeyExists and nothing changed when it differs;
\* NotFound on an absent key.
C13_DeleteThreeValued ==
    (Returned /\ ret.op.kind = "delete") =>
        IF Before = {}
        THEN ret.status = "NotFound" /\ memory = ret.memory
        ELSE \A r \in Before :
                IF Supplied = 0 \/ r.header.cas = Supplied
                THEN ret.status = "Ok" /\ memory = MapRemove(ret.memory, RetKey)
                ELSE ret.status = "KeyExists" /\ memory = ret.memory

\* C13's case: a conditional delete has been refused by a record of another
\* cas, which is still there.
C13_Witness ==
    /\ Returned
    /\ ret.op.kind = "delete"
    /\ Supplied # 0
    /\ ret.status = "KeyExists"
    /\ After # {}

\* a step of a flush: its first visit, a later one, or the one it returns from
FlushVisits ==
    \/ ret = NoRet /\ ret'.op.kind = "flush"
    \/ \E p \in AllProcs : op'[p].kind = "flush" /\ op'[p] # op[p]

\* the header the flush of that step was given
FlushHeader ==
    IF ret'.op.kind = "flush" THEN ret'.op.record.header
    ELSE (CHOOSE o \in {op'[p] : p \in AllProcs} : o.kind = "flush").record.header

\* C14: flush changes only expiration.  No step of a flush adds or removes a
\* key or changes a value, a cas or a flags field; an expiration it changes
\* becomes the header's; when the flush has returned every entry of the
\* store has the header's expiration.
C14_FlushChangesOnlyExpiration ==
    /\ [](Returned /\ ret.op.kind = "flush" =>
             \A k \in DOMAIN memory :
                 memory[k].header.expiration = ret.op.record.header.expiration)
    /\ [][FlushVisits =>
             /\ DOMAIN memory' = DOMAIN memory
             /\ \A k \in DOMAIN memory :
                    /\ memory'[k].value = memory[k].value
                    /\ memory'[k].header.cas = memory[k].header.cas
                    /\ memory'[k].header.flags = memory[k].header.flags
                    /\ memory'[k].header.timestamp = memory[k].header.timestamp
                    /\ memory'[k].header.expiration
                          \in {memory[k].header.expiration, FlushHeader.expiration}
             /\ cas_id' = cas_id]_vars

\* C14's case: a flush has returned from a store of two entries, after
\* changing the expiration of the last one it visited.
C14_Witness ==
    /\ Returned
    /\ ret.op.kind = "flush"
    /\ Cardinality(DOMAIN memory) = 2
    /\ \E r \in Before : r.header.expiration # ret.op.record.header.expiration

\* C15: flush semantics.  A key stored before a flush with expiration 1 and
\* not written since is not found by a get whose timer reading has reached
\* the time of its last write plus 1, whatever its expiration was.
C15_FlushedKeysExpire ==
    (/\ Returned
     /\ ret.op.kind = "get"
     /\ ret.flushed = 1
     /\ ret.secs >= ret.wtime + 1)
    => ret.status = "NotFound"

\* C15's case: such a get has found the flushed record still in the map and
\* returned NotFound.
C15_Witness ==
    /\ Returned
    /\ ret.op.kind = "get"
    /\ ret.flushed = 1
    /\ ret.secs >= ret.wtime + 1
    /\ Before # {}
    /\ ret.status = "NotFound"

\* C16: no operation panics: every call returns a success or an error, also
\* an increment whose sum does not fit a u64 and a conditional set whose cas
\* is the largest u64.
C16_NoPanic == Returned => ret.status # "Panic"

\* C17: delete treats an expired record as absent: on a key whose record is
\* still in the map but whose lifetime, counted from its last write, has
\* passed, delete returns NotFound.
C17_DeleteExpiredNotFound ==
    (/\ Returned
     /\ ret.op.kind = "delete"
     /\ \E r \in Before :
            /\ r.header.expiration # 0
            /\ ret.wtime + r.header.expiration <= now)
    => ret.status = "NotFound"

\* C18: read-modify-write operations on one key are serialized: the value an
\* unconditional increment or append leaves is made from the value that was
\* under the key when it committed, so that no update made in between is
\* lost.
C18_ReadModifyWriteSerialized ==
    (/\ Returned
     /\ ret.op.kind \in {"append", "increment"}
     /\ Supplied = 0
     /\ ret.status = "Ok"
     /\ Live # {})
    => \A old \in Before : \A new \in After :
           IF ret.op.kind = "append"
           THEN new.value = old.value \o ret.op.record.value
           ELSE LET n == ParseU64(old.value)
                    d == ret.op.delta.delta
                IN (n # -1 /\ ~Overflows(n, d)) => new.value = to_string(n + d)

\* C19: a successful add behaves like an unconditional set whatever cas its
\* record carries: the cas it stores and returns is the one the sequencer
\* has issued last.
C19_AddCasFromSequencer ==
    (Returned /\ ret.op.kind = "add" /\ ret.status = "Ok") =>
        /\ Len(issued) > 0
        /\ ret.cas = issued[Len(issued)]
        /\ \A r \in After : r.header.cas = ret.cas

\* C20: lazy eviction removes only the expired record it observed.  When a
\* call has returned NotFound after evicting, the record its removal took
\* from the map is the copy it had read, or a record that is expired too:
\* never a fresh one written in between.
C20_EvictsOnlyExpired ==
    (/\ Returned
     /\ ret.status = "NotFound"
     /\ ret.op.kind \in {"append", "prepend", "get", "replace"}
     /\ ret.rd # {})
    => \A r \in Before : r \in ret.rd \/ Expired(r, now)

====
